---- MODULE Spec2Model ----
(***************************************************************************)
(* Model of DataAccessLayer (src/src/data_access_layer.py): the per-day    *)
(* SQLite cache of one-minute bars, its day-by-day synchronisation         *)
(* (sincronizar_dados_historicos) and the range query that merges and      *)
(* resamples the daily stores (buscar_dados).                              *)
(*                                                                         *)
(* Calendar dates are integers; date d falls on weekday d % 7 with         *)
(* Monday = 0, as date.weekday() numbers them.  A timestamp is a minute    *)
(* index d * MinPerDay + m.                                                *)
(***************************************************************************)
EXTENDS Integers, Sequences, FiniteSets, TLC

VARIABLES
    today,          \* date.today()
    junk,           \* the data directory holds a *.sqlite3 file whose name is no date
    stores,         \* the one file per date: [file, table, rows]
    pc,             \* position of the sync: "idle", "loop", "ensure", "write"
    current_date,   \* loop variable of the sync
    data_final,     \* exclusive end of the sync
    novos_dados,    \* rows downloaded for current_date, not yet written
    fetchCount,     \* downloads issued per date by the current/last sync
    lastFetch,      \* outcome of the most recent download per date, over all syncs
    startStores,    \* stores when the current/last sync started
    chained,        \* the sync before this one ended normally on the same today
    stable,         \* every download of this sync succeeded and repeated its previous answer
    lastRun,        \* how the last sync ended
    errDay,         \* date whose download or write raised in the current/last sync
    faults,         \* errors, interruptions and revised provider answers so far
    resumed,        \* this sync follows, on the same today, a sync that was stopped
    baseStores,     \* stores when the first sync of such a sequence started
    qArgs,          \* arguments of the last query
    dados_1m,       \* merged one-minute series of the last query
    resultado,      \* value the last query returned
    qStatus         \* "none", "empty" (early return), "ok", "error" (raised)

syncVars  == <<pc, current_date, data_final, novos_dados, fetchCount,
               lastFetch, startStores, chained, stable, lastRun, errDay, faults>>
resumeVars == <<resumed, baseStores>>
queryVars == <<qArgs, dados_1m, resultado, qStatus>>
vars      == <<today, junk, stores, syncVars, resumeVars, queryVars>>

----------------------------------------------------------------------------
(* Bounds *)
FirstToday == 7
MaxToday   == 9
MaxFaults  == 1
MaxSpan    == 2
MinPerDay  == 4

(* Program constants *)
BootstrapDays == 6
FirstWeekendDay == 5

NoDate == -1
Dates  == 0..MaxToday

----------------------------------------------------------------------------
(* Bars and the provider *)

Bar(ts, v) ==
    LET b == (ts % 3) + v
    IN [ts |-> ts, open |-> b, high |-> b + 2, low |-> b - 1,
        close |-> b + 1, volume |-> 10 * b]

\* Timestamp of the first bar of the session of day d: the session opens
\* after midnight, and not at the same minute every day.
FirstMinute(d) == d * MinPerDay + 1 + (d % 2)

\* yf.download for day d: an empty frame, a frame of bars, or an exception.
\* The frame of day d carries a last bar stamped at the opening minute of
\* day d + 1, where the frame of the next day has a bar of another value.
Outcomes == {"empty", "rows", "error"}

ProviderRows(d, o) ==
    IF o = "rows"
    THEN << Bar(FirstMinute(d), 1 + (d % 2)), Bar(FirstMinute(d) + 1, 1 + (d % 2)),
            Bar(FirstMinute(d + 1), 1 + (d % 2)) >>
    ELSE << >>

----------------------------------------------------------------------------
(* Day stores *)

Absent     == [file |-> FALSE, table |-> FALSE, rows |-> << >>]
NoTable    == [file |-> TRUE,  table |-> FALSE, rows |-> << >>]
Table(rs)  == [file |-> TRUE,  table |-> TRUE,  rows |-> rs]

\* os.path.exists(_get_db_path_for_date(d))
Exists(d) == stores[d].file

\* Saturday taken for a trading day.
IsWeekdayOrSaturday(d) == d % 7 < FirstWeekendDay + 1

\* current_date.weekday() < 5
IsWeekday(d) == d % 7 < FirstWeekendDay

Max(S) == CHOOSE x \in S : \A y \in S : y <= x

\* _get_ultima_data_db: the largest date among the file names, None when the
\* directory has no *.sqlite3 file or when one of the names does not parse.
GetUltimaDataDb ==
    LET named == {d \in Dates : Exists(d)}
    IN IF named = {} /\ ~junk THEN NoDate      \* not db_files
       ELSE IF junk THEN NoDate                \* except ValueError
       ELSE Max(named)

\* A window that reaches one day further back.
DataInicialWide ==
    IF GetUltimaDataDb = NoDate THEN today - (BootstrapDays + 1)
    ELSE GetUltimaDataDb + 1

\* data_inicial, lines 82-88.
DataInicial ==
    IF GetUltimaDataDb = NoDate THEN today - BootstrapDays
    ELSE GetUltimaDataDb + 1

\* CREATE TABLE IF NOT EXISTS on the file of the date; sqlite3.connect creates the file.
EnsureTableExists(s) == IF s.table THEN s ELSE Table(<< >>)

\* The frame appended to the rows already in the table.
ToSqlAppend(s, rows) == Table(s.rows \o rows)

\* to_sql(if_exists='replace'): the table is dropped and rebuilt from the frame.
ToSqlReplace(s, rows) == Table(rows)

\* The loop variable left where it is.
NextDateStuck(d) == d

\* current_date += timedelta(days=1), line 126.
NextDate(d) == d + 1

\* A loop that also runs for data_final itself.
LoopConditionInclusive == current_date <= data_final

\* while current_date < data_final
LoopCondition == current_date < data_final

----------------------------------------------------------------------------
(* buscar_dados *)

\* pandas offset aliases used by the callers, and one that to_offset rejects.
Timeframes == {"2min", "3min", "D", "bogus"}

ValidTimeframe(tf) == tf \in {"2min", "3min", "D"}

\* Width of the bucket of a timeframe, in minutes.
Width(tf) ==
    CASE tf = "2min" -> 2
      [] tf = "3min" -> 3
      [] OTHER       -> MinPerDay

\* read_sql_query raises when the file holds no table tf_1m.
Readable(s) == s.file /\ s.table

\* sqlite3.connect creates the file when the path does not exist.
Connect(s) == IF s.file THEN s ELSE NoTable

\* Every date of the range opened, with or without a file.
ReadStoreUnguarded(s) == Connect(s)

\* What reading one date leaves on disk: the connection is opened only under
\* os.path.exists, and a SELECT followed by commit changes no row.
ReadStore(s) == IF s.file THEN Connect(s) ELSE s

\* A range that leaves its last date out.
InRangeExclusive(d, end) == d < end

\* while current_date <= end
InRange(d, end) == d <= end

\* The loop over [start, end]: one frame per existing file that could be
\* read; a missing file is not opened, a failed read is logged and dropped.
RECURSIVE LoadStores(_, _, _)
LoadStores(st, d, end) ==
    IF ~InRange(d, end) THEN << >>
    ELSE (IF st[d].file /\ Readable(st[d]) THEN << st[d].rows >> ELSE << >>)
         \o LoadStores(st, d + 1, end)

\* pd.concat(lista_dfs)
RECURSIVE Concat(_)
Concat(dfs) == IF dfs = << >> THEN << >> ELSE Head(dfs) \o Concat(Tail(dfs))

\* The last row of a timestamp kept instead of the first.
KeepLastRow(s, i) == \A j \in (i + 1)..Len(s) : s[j].ts # s[i].ts

\* Row i survives ~index.duplicated(keep='first'): no earlier row has its timestamp.
KeepRow(s, i) == \A j \in 1..(i - 1) : s[j].ts # s[i].ts

RECURSIVE DedupUpTo(_, _)
DedupUpTo(s, n) ==
    IF n = 0 THEN << >>
    ELSE IF KeepRow(s, n) THEN Append(DedupUpTo(s, n - 1), s[n])
    ELSE DedupUpTo(s, n - 1)

DropDuplicated(s) == DedupUpTo(s, Len(s))

\* sort_index: stable ascending sort on the timestamp.
RECURSIVE InsertSorted(_, _)
InsertSorted(s, x) ==
    IF s = << >> THEN << x >>
    ELSE IF s[Len(s)].ts <= x.ts THEN Append(s, x)
    ELSE Append(InsertSorted(SubSeq(s, 1, Len(s) - 1), x), s[Len(s)])

RECURSIVE SortIndex(_)
SortIndex(s) ==
    IF s = << >> THEN << >>
    ELSE InsertSorted(SortIndex(SubSeq(s, 1, Len(s) - 1)), s[Len(s)])

MergeFrames(dfs) == SortIndex(DropDuplicated(Concat(dfs)))

\* Bins counted from the first row itself.
FirstEdgeFromStart(s, w) == s[1].ts

\* resample(rule): the bins start at the bin holding the first row, counted
\* from midnight of the day of the first row, and follow each other at the
\* width of the rule.
FirstEdge(s, w) ==
    LET origin == (s[1].ts \div MinPerDay) * MinPerDay
    IN origin + ((s[1].ts - origin) \div w) * w

BucketOf(s, w, ts) == FirstEdge(s, w) + ((ts - FirstEdge(s, w)) \div w) * w

RECURSIVE SumVolume(_)
SumVolume(s) == IF s = << >> THEN 0 ELSE Head(s).volume + SumVolume(Tail(s))

MaxOf(S) == CHOOSE x \in S : \A y \in S : y <= x
MinOf(S) == CHOOSE x \in S : \A y \in S : x <= y

\* 'Close' aggregated with 'first' instead of 'last'.
AggregateCloseFirst(b, rows) ==
    [ts     |-> b,
     open   |-> rows[1].open,
     high   |-> MaxOf({rows[i].high : i \in 1..Len(rows)}),
     low    |-> MinOf({rows[i].low : i \in 1..Len(rows)}),
     close  |-> rows[1].close,
     volume |-> SumVolume(rows)]

\* agg(regras_resample) on the rows of one bin.
Aggregate(b, rows) ==
    [ts     |-> b,
     open   |-> rows[1].open,
     high   |-> MaxOf({rows[i].high : i \in 1..Len(rows)}),
     low    |-> MinOf({rows[i].low : i \in 1..Len(rows)}),
     close  |-> rows[Len(rows)].close,
     volume |-> SumVolume(rows)]

RECURSIVE SortedSeqOf(_)
SortedSeqOf(S) ==
    IF S = {} THEN << >> ELSE << MinOf(S) >> \o SortedSeqOf(S \ {MinOf(S)})

\* resample(rule).agg(...) followed by dropna: one row per bin that has rows.
Resample(s, tf) ==
    IF s = << >> THEN << >>
    ELSE LET w    == Width(tf)
             bins == SortedSeqOf({BucketOf(s, w, s[i].ts) : i \in 1..Len(s)})
             In(b) == LET Test(x) == BucketOf(s, w, x.ts) = b IN SelectSeq(s, Test)
         IN [k \in 1..Len(bins) |-> Aggregate(bins[k], In(bins[k]))]

----------------------------------------------------------------------------
TypeOK ==
    /\ today \in FirstToday..MaxToday
    /\ junk \in BOOLEAN
    /\ pc \in {"idle", "loop", "ensure", "write"}
    /\ faults \in 0..MaxFaults
    /\ resumed \in BOOLEAN
    /\ DOMAIN baseStores = Dates

Init ==
    /\ today = FirstToday
    /\ junk \in BOOLEAN
    /\ stores = [d \in Dates |-> Absent]
    /\ pc = "idle"
    /\ current_date = NoDate
    /\ data_final = NoDate
    /\ novos_dados = << >>
    /\ fetchCount = [d \in Dates |-> 0]
    /\ lastFetch = [d \in Dates |-> "none"]
    /\ startStores = stores
    /\ chained = FALSE
    /\ stable = TRUE
    /\ lastRun = "none"
    /\ errDay = NoDate
    /\ faults = 0
    /\ resumed = FALSE
    /\ baseStores = stores
    /\ qArgs = << >>
    /\ dados_1m = << >>
    /\ resultado = << >>
    /\ qStatus = "none"

\* The calendar moves to the next day between two calls.
AdvanceDay ==
    /\ pc = "idle"
    /\ today < MaxToday
    /\ today' = today + 1
    /\ UNCHANGED <<junk, stores, syncVars, queryVars, resumeVars>>

\* sincronizar_dados_historicos, lines 80-97: cursor, window, early return.
SyncStart ==
    /\ pc = "idle"
    /\ data_final' = today
    /\ current_date' = DataInicial
    /\ fetchCount' = [d \in Dates |-> 0]
    /\ startStores' = stores
    /\ chained' = (lastRun \in {"completed", "nothing"} /\ data_final = today)
    /\ resumed' = (lastRun = "interrupted" /\ data_final = today)
    /\ baseStores' = IF lastRun = "interrupted" /\ data_final = today
                     THEN baseStores
                     ELSE stores
    /\ stable' = TRUE
    /\ errDay' = NoDate
    /\ novos_dados' = << >>
    /\ IF DataInicial >= today
       THEN pc' = "idle" /\ lastRun' = "nothing"
       ELSE pc' = "loop" /\ lastRun' = "running"
    /\ UNCHANGED <<today, junk, stores, lastFetch, faults, queryVars>>

\* The loop leaves when current_date reaches data_final.
SyncFinish ==
    /\ pc = "loop"
    /\ ~LoopCondition
    /\ pc' = "idle"
    /\ lastRun' = "completed"
    /\ UNCHANGED <<today, junk, stores, current_date, data_final, novos_dados,
                   fetchCount, lastFetch, startStores, chained, stable,
                   errDay, faults, queryVars, resumeVars>>

\* Weekend branch: the date is skipped.
SkipWeekend ==
    /\ pc = "loop"
    /\ LoopCondition
    /\ ~IsWeekday(current_date)
    /\ current_date' = NextDate(current_date)
    /\ UNCHANGED <<today, junk, stores, pc, data_final, novos_dados,
                   fetchCount, lastFetch, startStores, chained, stable,
                   lastRun, errDay, faults, queryVars, resumeVars>>

\* The provider answers for date d differently than the last time it answered.
Revised(d, o) == lastFetch[d] \in {"empty", "rows"} /\ o \in {"empty", "rows"} /\ o # lastFetch[d]

\* yf.download for current_date (line 107) and the emptiness test (line 109).
\* An exception is not caught anywhere in the method: it ends the call.
Fetch(o) ==
    /\ pc = "loop"
    /\ LoopCondition
    /\ IsWeekday(current_date)
    /\ (o = "error" \/ Revised(current_date, o)) => faults < MaxFaults
    /\ fetchCount' = [fetchCount EXCEPT ![current_date] = @ + 1]
    /\ lastFetch' = [lastFetch EXCEPT ![current_date] = o]
    /\ stable' = (stable /\ o # "error"
                  /\ lastFetch[current_date] \in {"none", o})
    /\ faults' = IF o = "error" \/ Revised(current_date, o) THEN faults + 1 ELSE faults
    /\ CASE o = "error" ->
              /\ pc' = "idle"
              /\ lastRun' = "aborted"
              /\ errDay' = current_date
              /\ UNCHANGED <<current_date, novos_dados>>
         [] o = "empty" ->
              /\ current_date' = NextDate(current_date)
              /\ UNCHANGED <<pc, lastRun, errDay, novos_dados>>
         [] OTHER ->
              /\ novos_dados' = ProviderRows(current_date, o)
              /\ pc' = "ensure"
              /\ UNCHANGED <<current_date, lastRun, errDay>>
    /\ UNCHANGED <<today, junk, stores, data_final, startStores, chained, queryVars,
                   resumeVars>>

\* _ensure_table_exists(db_path), line 111.
EnsureTable ==
    /\ pc = "ensure"
    /\ stores' = [stores EXCEPT ![current_date] = EnsureTableExists(@)]
    /\ pc' = "write"
    /\ UNCHANGED <<today, junk, current_date, data_final, novos_dados,
                   fetchCount, lastFetch, startStores, chained, stable,
                   lastRun, errDay, faults, queryVars, resumeVars>>

\* to_sql(..., if_exists='replace') and current_date += 1, lines 120-126.
WriteRows ==
    /\ pc = "write"
    /\ stores' = [stores EXCEPT ![current_date] = ToSqlReplace(@, novos_dados)]
    /\ novos_dados' = << >>
    /\ current_date' = NextDate(current_date)
    /\ pc' = "loop"
    /\ UNCHANGED <<today, junk, data_final, fetchCount, lastFetch,
                   startStores, chained, stable, lastRun, errDay, faults, queryVars, resumeVars>>

\* to_sql raises (disk full, I/O error).  DROP TABLE and CREATE TABLE are
\* committed on their own, the INSERTs in one transaction, so the file is
\* left as it was, without the table, or with the empty table.
WriteFails(left) ==
    /\ pc = "write"
    /\ faults < MaxFaults
    /\ stores' = [stores EXCEPT ![current_date] =
                     CASE left = "dropped" -> NoTable
                       [] left = "created" -> Table(<< >>)
                       [] OTHER            -> @]
    /\ pc' = "idle"
    /\ lastRun' = "aborted"
    /\ errDay' = current_date
    /\ stable' = FALSE
    /\ faults' = faults + 1
    /\ UNCHANGED <<today, junk, current_date, data_final, novos_dados,
                   fetchCount, lastFetch, startStores, chained, queryVars, resumeVars>>

\* The process is stopped in the middle of a sync.
Interrupt ==
    /\ pc \in {"loop", "ensure", "write"}
    /\ faults < MaxFaults
    /\ pc' = "idle"
    /\ lastRun' = "interrupted"
    /\ stable' = FALSE
    /\ faults' = faults + 1
    /\ UNCHANGED <<today, junk, stores, current_date, data_final, novos_dados,
                   fetchCount, lastFetch, startStores, chained,
                   errDay, queryVars, resumeVars>>

\* pd.concat raises on an empty list when the early return is missing.
QueryStatusNoEarlyReturn(tf, lista_dfs) ==
    IF lista_dfs = << >> \/ ~ValidTimeframe(tf) THEN "error" ELSE "ok"

\* How the call ends: the early return of line 150-152 with an empty frame,
\* the exception of resample(rule=timeframe) for a rule that is no offset,
\* or the return of the composed frame.
QueryStatus(tf, lista_dfs) ==
    IF lista_dfs = << >> THEN "empty"
    ELSE IF ValidTimeframe(tf) THEN "ok"
    ELSE "error"

\* buscar_dados(timeframe, data_inicio, data_fim).  The call reads the files
\* and leaves its merged series and its result in the query variables.
Query(tf, start, end) ==
    /\ pc = "idle"
    /\ qStatus = "none"
    /\ qArgs' = << tf, start, end >>
    /\ LET lista_dfs == LoadStores(stores, start, end)
           status    == QueryStatus(tf, lista_dfs)
       IN /\ qStatus' = status
          /\ dados_1m' = IF lista_dfs = << >> THEN << >> ELSE MergeFrames(lista_dfs)
          /\ resultado' = IF status = "ok"
                          THEN Resample(MergeFrames(lista_dfs), tf) ELSE << >>
    /\ stores' = [d \in Dates |-> IF start <= d /\ InRange(d, end)
                                  THEN ReadStore(stores[d]) ELSE stores[d]]
    /\ UNCHANGED <<today, junk, syncVars, resumeVars>>

Next ==
    \/ AdvanceDay
    \/ SyncStart
    \/ SyncFinish
    \/ SkipWeekend
    \/ \E o \in Outcomes : Fetch(o)
    \/ EnsureTable
    \/ WriteRows
    \/ \E left \in {"unchanged", "dropped", "created"} : WriteFails(left)
    \/ Interrupt

Spec == Init /\ [][Next]_vars

----------------------------------------------------------------------------
(* Properties of the synchronisation, checked under Spec *)

SyncEnded == pc = "idle" /\ lastRun \in {"completed", "nothing"}

EmptyAtStart == \A d \in Dates : ~startStores[d].file

\* The store of d holds exactly the non-empty frame downloaded for d.
Populated(d) ==
    /\ stores[d].file /\ stores[d].table
    /\ stores[d].rows # << >>
    /\ stores[d].rows = ProviderRows(d, "rows")

\* C1: a weekday before today whose download came back empty or failed, and
\* that still has no store, is downloaded again by every later sync that
\* runs to its end, also when a later date already has a populated store.
C1_RetriedByEverySync ==
    (SyncEnded /\ \A e \in Dates : stores[e] = Absent \/ Populated(e)) =>
       \A d \in Dates :
          (IsWeekday(d) /\ d < data_final /\ ~Exists(d)
             /\ lastFetch[d] \in {"empty", "error"}
             /\ \E e \in Dates : d < e /\ Populated(e))
          => fetchCount[d] >= 1

C3_SecondSyncChangesNothing ==
    (SyncEnded /\ chained /\ stable) => stores = startStores

\* The second sync downloaded a date again and wrote its store again.
C3_Witness ==
    /\ pc = "idle" /\ lastRun = "completed" /\ chained /\ stable
    /\ \E d \in Dates : fetchCount[d] = 1 /\ Populated(d) /\ startStores[d].file

\* C4: no download is issued and no store is created for a Saturday or a
\* Sunday, from an empty cache or any other.
C4_NoWeekend ==
    \A d \in Dates :
       d % 7 \in {5, 6} => fetchCount[d] = 0 /\ lastFetch[d] = "none" /\ stores[d] = Absent

\* One sync downloaded a date before a weekend and a date after it.
C4_Witness ==
    \E d, e, f \in Dates :
       /\ e % 7 \in {5, 6} /\ d < e /\ e < f
       /\ fetchCount[d] = 1 /\ fetchCount[f] = 1
       /\ \E g \in Dates : g < d /\ Exists(g) /\ startStores[g].file

\* C5: no date from today on is ever downloaded, and no store of such a date
\* is created or changed, by any step of any sync.
C5_TodayExcluded ==
    [][\A d \in Dates :
          d >= today =>
             /\ stores'[d] = stores[d] /\ stores[d] = Absent
             /\ fetchCount'[d] = 0 /\ lastFetch'[d] = "none"]_vars

\* The sync has stored yesterday and come to its end.
C5_Witness ==
    /\ pc = "idle" /\ lastRun = "completed"
    /\ data_final = today /\ fetchCount[today - 1] = 1 /\ Populated(today - 1)

\* C6: whenever a cursor scan or a query can look at the files, also after a
\* sync was stopped or failed half way, the store of a date is absent or
\* holds the whole non-empty frame of that date.
C6_AbsentOrComplete ==
    pc = "idle" => \A d \in Dates : stores[d] = Absent \/ Populated(d)

\* C7: a download or a write that raises for date d does not leave the sync:
\* the sync runs to its end and downloads every weekday after d.
C7_ErrorDoesNotAbort ==
    (pc = "idle" /\ errDay # NoDate) =>
       /\ lastRun = "completed"
       /\ \A d \in Dates :
             (IsWeekday(d) /\ errDay < d /\ d < data_final) => fetchCount[d] >= 1

----------------------------------------------------------------------------
(* The query on its own: buscar_dados reads the files and nothing else, so  *)
(* it is run once from every cache the syncs can leave behind: each weekday *)
(* before today has no file, a file without the table, a file with the      *)
(* empty table, or a file with the rows of its download.                    *)

ShapeNames == {"absent", "notable", "empty", "rows"}

StoreShape(d, k) ==
    CASE k = "notable" -> NoTable
      [] k = "empty"   -> Table(<< >>)
      [] k = "rows"    -> Table(ProviderRows(d, "rows"))
      [] OTHER         -> Absent

SyncedDates(t) == {d \in Dates : IsWeekday(d) /\ d < t /\ d >= FirstToday - BootstrapDays}

InitQuery ==
    /\ today \in FirstToday..MaxToday
    /\ junk = FALSE
    /\ \E k \in [SyncedDates(today) -> ShapeNames] :
          stores = [d \in Dates |-> IF d \in SyncedDates(today)
                                    THEN StoreShape(d, k[d]) ELSE Absent]
    /\ pc = "idle"
    /\ current_date = NoDate
    /\ data_final = NoDate
    /\ novos_dados = << >>
    /\ fetchCount = [d \in Dates |-> 0]
    /\ lastFetch = [d \in Dates |-> "none"]
    /\ startStores = stores
    /\ chained = FALSE
    /\ stable = TRUE
    /\ lastRun = "none"
    /\ errDay = NoDate
    /\ faults = 0
    /\ resumed = FALSE
    /\ baseStores = stores
    /\ qArgs = << >>
    /\ dados_1m = << >>
    /\ resultado = << >>
    /\ qStatus = "none"

\* Under Spec: every cache the syncs leave is one of the caches InitQuery draws.
CachesCovered ==
    \A d \in Dates :
       IF d \in SyncedDates(today)
       THEN \E k \in ShapeNames : stores[d] = StoreShape(d, k)
       ELSE stores[d] = Absent

NextQuery ==
    \E tf \in Timeframes, start \in Dates :
       \E end \in start..(start + MaxSpan - 1) :
          end \in Dates /\ Query(tf, start, end)

SpecQuery == InitQuery /\ [][NextQuery]_vars
----------------------------------------------------------------------------
(* Properties of the query, checked under SpecQuery *)

QueryDone == qStatus # "none"

\* The dates of the queried range whose file holds a table that can be read.
ReadableDates == {d \in Dates : qArgs[2] <= d /\ d <= qArgs[3] /\ stores[d].file /\ stores[d].table}

BarsOf(d) == {stores[d].rows[i] : i \in 1..Len(stores[d].rows)}

MergedBars == {dados_1m[i] : i \in 1..Len(dados_1m)}

\* C8: a missing store adds nothing and a store that cannot be read is
\* skipped without an error; the merged series has the timestamps of all
\* readable stores of the range and only bars of those stores.
C8_MergeIsUnionOfReadable ==
    QueryDone =>
       /\ qStatus = "error" => ~ValidTimeframe(qArgs[1])
       /\ {b.ts : b \in MergedBars} = UNION {{b.ts : b \in BarsOf(d)} : d \in ReadableDates}
       /\ MergedBars \subseteq UNION {BarsOf(d) : d \in ReadableDates}

\* The range holds a file without table next to a populated store, whose
\* bars are all in the merged series.
C8_Witness ==
    /\ qStatus = "ok"
    /\ \E d, e \in Dates :
          /\ qArgs[2] <= d /\ d <= qArgs[3] /\ stores[d] = NoTable
          /\ e \in ReadableDates /\ BarsOf(e) # {} /\ BarsOf(e) \subseteq MergedBars

\* C9: the merged series is strictly ascending in its timestamps, and of the
\* bars that share a timestamp it holds the one of the earliest date.
C9_FirstSeenWins ==
    QueryDone =>
       /\ \A i, j \in 1..Len(dados_1m) : i < j => dados_1m[i].ts < dados_1m[j].ts
       /\ \A d \in ReadableDates : \A b \in BarsOf(d) :
             (\A e \in ReadableDates : e < d => \A c \in BarsOf(e) : c.ts # b.ts)
             => b \in MergedBars

\* Two stores of the range hold the same timestamp under different values.
C9_Witness ==
    /\ qStatus = "ok"
    /\ \E d, e \in ReadableDates : \E b \in BarsOf(d), c \in BarsOf(e) :
          d < e /\ b.ts = c.ts /\ b # c /\ b \in MergedBars /\ c \notin MergedBars

ResultBars == {resultado[k] : k \in 1..Len(resultado)}

\* The merged minute bars that fall into the bucket starting at b.
BucketBars(b) == {m \in MergedBars : b <= m.ts /\ m.ts < b + Width(qArgs[1])}

RECURSIVE VolumeOf(_)
VolumeOf(S) ==
    IF S = {} THEN 0
    ELSE LET m == CHOOSE x \in S : TRUE IN m.volume + VolumeOf(S \ {m})

\* C11: the result is ascending, every minute bar lies in the bucket of
\* exactly one result bar, no result bar has an empty bucket, and a result
\* bar carries the open of the earliest bar of its bucket, the highest high,
\* the lowest low, the close of the latest bar and the sum of the volumes.
C11_OhlcvPerBucket ==
    qStatus = "ok" =>
       /\ \A i, j \in 1..Len(resultado) : i < j => resultado[i].ts < resultado[j].ts
       /\ \A m \in MergedBars :
             Cardinality({r \in ResultBars : m \in BucketBars(r.ts)}) = 1
       /\ \A r \in ResultBars :
             LET ms == BucketBars(r.ts)
             IN /\ ms # {}
                /\ \E first, last \in ms :
                      /\ \A m \in ms : first.ts <= m.ts /\ m.ts <= last.ts
                      /\ r.open = first.open
                      /\ r.close = last.close
                /\ \E m \in ms : r.high = m.high
                /\ \A m \in ms : r.high >= m.high
                /\ \E m \in ms : r.low = m.low
                /\ \A m \in ms : r.low <= m.low
                /\ r.volume = VolumeOf(ms)

\* A bucket holds two bars of different open and close, next to another bucket.
C11_Witness ==
    /\ qStatus = "ok" /\ Len(resultado) >= 2
    /\ \E r \in ResultBars : \E m, n \in BucketBars(r.ts) :
          m.ts < n.ts /\ m.open # n.open /\ m.close # n.close /\ r.close = n.close
\* The ranges a second query can ask for.
Ranges == {rg \in Dates \X Dates : rg[1] <= rg[2] /\ rg[2] < rg[1] + MaxSpan}

\* Merged series and result of a second query on the same cache, with the
\* same timeframe, over the range rg.
MergedOver(rg) ==
    LET m == MergeFrames(LoadStores(stores, rg[1], rg[2]))
    IN {m[i] : i \in 1..Len(m)}

ResultOver(rg) ==
    LET r == Resample(MergeFrames(LoadStores(stores, rg[1], rg[2])), qArgs[1])
    IN {r[k] : k \in 1..Len(r)}

\* The second query sees, in the bucket starting at b, the bars the first saw.
SameBucketBars(rg, b) ==
    {m \in MergedOver(rg) : b <= m.ts /\ m.ts < b + Width(qArgs[1])} = BucketBars(b)

\* C12 as claimed: for every timeframe, a bucket of the result comes out with
\* the same start and the same values in every other query whose range
\* holds the same minute bars of that bucket.
C12_BucketsIndependentOfRange ==
    qStatus = "ok" =>
       \A rg \in Ranges : \A r \in ResultBars :
          SameBucketBars(rg, r.ts) => r \in ResultOver(rg)

\* C12 as amended: the same, for the timeframes whose width divides the day.
C12_BucketsOfDividingWidths ==
    (qStatus = "ok" /\ MinPerDay % Width(qArgs[1]) = 0) =>
       \A rg \in Ranges : \A r \in ResultBars :
          SameBucketBars(rg, r.ts) => r \in ResultOver(rg)

\* Two queries whose series start on different days share a bucket.
C12_Witness ==
    /\ qStatus = "ok" /\ MinPerDay % Width(qArgs[1]) = 0
    /\ \E rg \in Ranges : \E r \in ResultBars :
          /\ rg[1] # qArgs[2]
          /\ MergedOver(rg) # {} /\ MergedOver(rg) # MergedBars
          /\ dados_1m[1] \notin MergedOver(rg)
          /\ \A m \in MergedOver(rg) : m.ts \div MinPerDay > dados_1m[1].ts \div MinPerDay
          /\ SameBucketBars(rg, r.ts) /\ r \in ResultOver(rg)
\* C13: a query with an invalid timeframe ends with an error, for every range
\* and every cache, also when the range holds no store.
C13_InvalidTimeframeRaises ==
    (QueryDone /\ ~ValidTimeframe(qArgs[1])) => qStatus = "error"
----------------------------------------------------------------------------
(* Further properties of the synchronisation, checked under Spec *)

\* C14: a sync downloads each date at most once and in ascending order, and
\* has written the store of a date before it downloads a later one; so the
\* stores written before a download fails are there with their full frame.
C14_OneDayAtATime ==
    /\ \A d \in Dates : fetchCount[d] <= 1
    /\ lastRun # "none" =>
          \A d \in Dates :
             /\ d > current_date => fetchCount[d] = 0
             /\ (d < current_date /\ fetchCount[d] = 1 /\ lastFetch[d] = "rows")
                => Populated(d)
             /\ (d = current_date /\ fetchCount[d] = 1)
                => (pc \in {"ensure", "write"} \/ lastRun \in {"aborted", "interrupted"})

\* The download of a date failed after an earlier date of the same sync was stored.
C14_Witness ==
    /\ pc = "idle" /\ lastRun = "aborted" /\ errDay # NoDate
    /\ fetchCount[errDay] = 1 /\ lastFetch[errDay] = "error"
    /\ \E d \in Dates : d < errDay /\ fetchCount[d] = 1 /\ Populated(d)
\* What one sync from the cache st produces on day data_final when it runs to
\* its end and the provider answers lastFetch: it starts after the last date
\* of st, or six days back, and stores every non-empty frame.
UninterruptedFrom(st) ==
    LET named == {d \in Dates : st[d].file}
        first == IF junk \/ named = {} THEN data_final - 6 ELSE Max(named) + 1
    IN [d \in Dates |->
          IF d % 7 < 5 /\ first <= d /\ d < data_final /\ lastFetch[d] = "rows"
          THEN Table(ProviderRows(d, "rows"))
          ELSE st[d]]

\* C15: when a sync was stopped and sync is called again on the same today,
\* with a provider that repeats its answers, the stores at the end are those
\* one sync without interruption would have produced from the same cache.
C15_ResumeEqualsUninterrupted ==
    (SyncEnded /\ resumed /\ stable) => stores = UninterruptedFrom(baseStores)
\* C16: the date a sync starts from is the day after the greatest date among
\* the existing stores, whatever else the cache directory holds; the six-day
\* window is used only when no store exists.
C16_CursorIsMaxStoredDate ==
    [][SyncStart =>
          LET named == {d \in Dates : stores[d].file}
          IN current_date' = IF named = {} THEN today - 6 ELSE Max(named) + 1]_vars
\* The stores a sync found when it started, by date.
StoredAtStart == {d \in Dates : startStores[d].file}

\* C17: a sync that starts on a cache whose greatest stored date is c fetches
\* no date up to c and leaves the store of every such date as it was, the
\* greatest stored date does not go down, and with c on or after the day
\* before today the sync fetches nothing and changes nothing.
C17_StoredDaysUntouched ==
    (lastRun # "none" /\ StoredAtStart # {}) =>
        LET c == Max(StoredAtStart)
        IN /\ \A d \in Dates : d <= c => (fetchCount[d] = 0 /\ stores[d] = startStores[d])
           /\ {d \in Dates : stores[d].file} # {}
           /\ Max({d \in Dates : stores[d].file}) >= c
           /\ c >= data_final - 1 =>
                 ((\A d \in Dates : fetchCount[d] = 0) /\ stores = startStores)
\* ---------------------------------------------------------------------
\* Frame of the query
\* ---------------------------------------------------------------------

\* C18: a query leaves the cache as it found it: the same files with the
\* same contents, and no file for a date of the range that had none.
C18_QueryLeavesCacheUnchanged == [][stores' = stores /\ junk' = junk]_vars

\* A finished query whose range held a date without file next to a
\* populated store.
C18_Witness ==
    /\ QueryDone
    /\ \E d, e \in Dates :
          /\ qArgs[2] <= d /\ d <= qArgs[3] /\ ~stores[d].file
          /\ qArgs[2] <= e /\ e <= qArgs[3] /\ stores[e].table /\ stores[e].rows # << >>
====
